---------------------------- MODULE Spec2Model ----------------------------
(***************************************************************************)
(* Model of the schedule reconstruction engine of the schoolsoft crate:    *)
(*   utils.rs     WeekRange (the week-range iterator)                      *)
(*   schedule.rs  Occasion::try_from, Schedule::deserialize, Schedule::from *)
(*   user.rs      Token::expires_in, is_expired, is_valid, is_safe,         *)
(*                User::get_token, smart_token (utils.rs make_request)      *)
(*                                                                         *)
(* Strings the code scans character by character (the three week strings)  *)
(* are sequences of one-character strings.  Option<T> is a sequence of     *)
(* length 0 (None) or 1 (Some).  Six specifications share the variables:   *)
(*   SpecWR   one WeekRange iterator driven by repeated next() calls       *)
(*   SpecOcc  Schedule::deserialize of one record with rich week strings   *)
(*   Spec     Schedule::deserialize of an array of records                 *)
(*   SpecFrom Schedule::from, ScheduleWeek::new_empty and get_day of a date *)
(*   SpecToken the expiry methods of a Token as its clock advances          *)
(*   SpecUser get_token and smart_token calls against a server's answers    *)
(***************************************************************************)
EXTENDS Integers, Sequences, FiniteSets, TLC

VARIABLES
    clock,       \* what (self.now)() returns, in seconds of 2024-01-01
    token,       \* SpecToken: the Token; SpecUser: user.token
    calls,       \* the calls made at this reading of the clock
    fetched,     \* ghost: the body of the latest answer a token was read from
    start_date,  \* the anchor date: Schedule::from's start, today for deserialize
    new_week,    \* SpecFrom: what ScheduleWeek::new_empty returned
    got_day,     \* SpecFrom: the weekday asked of get_day, and what it returned
    toks,        \* ghost: the token lists the week strings were written from
    spaces,      \* ghost: number of spaces after each comma of the strings
    data,        \* deserialize's input: [json_ok, records]
    pc,          \* position in Schedule::deserialize / Occasion::try_from
    idx,         \* index in raw of the record being resolved
    iter,        \* the live WeekRange: [input, range]
    out,         \* SpecWR: what the next() calls have returned, in order
    weeks_mask,  \* try_from's weeks_mask
    try_result,  \* what the latest Occasion::try_from returned (None: running)
    todo,        \* weeks of the occasion still to be placed
    resolved,    \* ghost: the Occasions resolved so far, in order
    schedule,    \* deserialize's local schedule
    result       \* what Schedule::deserialize returned

vars == <<clock, token, calls, fetched, start_date, new_week, got_day, toks, spaces, data, pc, idx, iter, out, weeks_mask, try_result,
          todo, resolved, schedule, result>>

-----------------------------------------------------------------------------
(* Bounds of the model *)

\* tokens in the string of a SpecWR run
MaxTokens == 3
\* next() calls made after the first None
MaxExtraCalls == 2
\* tokens in the three week strings of a SpecOcc record, together
MaxOccTokens == 3
\* records in the array of a Spec run
MaxRecords == 2

(* Program constants *)

\* u8::MAX, the item type of WeekRange
U8Max == 255
\* length of weeks_mask
MaskLen == 54
\* length of Schedule.weeks
NumWeeks == 53

-----------------------------------------------------------------------------
(* Option and small helpers *)

None == <<>>
Some(x) == <<x>>

RECURSIVE Concat(_)
Concat(ss) == IF ss = <<>> THEN <<>> ELSE Head(ss) \o Concat(Tail(ss))

RECURSIVE SumSeq(_)
SumSeq(s) == IF s = <<>> THEN 0 ELSE Head(s) + SumSeq(Tail(s))

Elems(s) == {s[i] : i \in DOMAIN s}

SeqsUpTo(S, n) == UNION {[1..k -> S] : k \in 0..n}

\* the entries of menu that the indices ix name
Pick(menu, ix) == [i \in DOMAIN ix |-> menu[ix[i]]]

-----------------------------------------------------------------------------
(* Week strings: the grammar the inputs are written in.  A token is a      *)
(* single integer, a range "a-b", or one of the malformed shapes.          *)

DigitChars == <<"0", "1", "2", "3", "4", "5", "6", "7", "8", "9">>

RECURSIVE Digits(_)
Digits(n) ==
    IF n < 10 THEN <<DigitChars[n + 1]>>
    ELSE Digits(n \div 10) \o <<DigitChars[(n % 10) + 1]>>

TSingle(n) == [k |-> "single", a |-> n, b |-> n]
TRange(a, b) == [k |-> "range", a |-> a, b |-> b]
\* "x": not a number
TWord == [k |-> "word", a |-> 0, b |-> 0]
\* "a-": a dash with no upper bound
TNoEnd(a) == [k |-> "noend", a |-> a, b |-> 0]
\* "-b": a dash with no lower bound
TNoStart(b) == [k |-> "nostart", a |-> 0, b |-> b]

Render(t) ==
    CASE t.k = "single"  -> Digits(t.a)
      [] t.k = "range"   -> Digits(t.a) \o <<"-">> \o Digits(t.b)
      [] t.k = "word"    -> <<"x">>
      [] t.k = "noend"   -> Digits(t.a) \o <<"-">>
      [] t.k = "nostart" -> <<"-">> \o Digits(t.b)

Separator(n) == <<",">> \o [i \in 1..n |-> " "]

RECURSIVE Join(_, _)
Join(ts, n) ==
    IF ts = <<>> THEN <<>>
    ELSE IF Len(ts) = 1 THEN Render(ts[1])
    ELSE Render(ts[1]) \o Separator(n) \o Join(Tail(ts), n)

\* the token lists of the three week strings of a record
Triple(b, e, i) == [base |-> b, excl |-> e, incl |-> i]

Malformed(t) == t.k \in {"word", "noend", "nostart"}

\* the weeks a well-formed token stands for, in order
Expand(t) ==
    IF t.k = "single" THEN <<t.a>>
    ELSE [i \in 1..(t.b - t.a + 1) |-> t.a + i - 1]

ExpandAll(ts) == Concat([i \in DOMAIN ts |-> Expand(ts[i])])

\* the week numbers a token list names
Named(ts) ==
    UNION {IF Malformed(ts[i]) THEN {} ELSE {ts[i].a, ts[i].b} \cup (ts[i].a .. ts[i].b)
           : i \in DOMAIN ts}

-----------------------------------------------------------------------------
(* utils.rs: WeekRange *)

DigitVal(c) == CHOOSE d \in 0..9 : DigitChars[d + 1] = c

IsDigit(c) == \E d \in 0..9 : DigitChars[d + 1] = c

\* variant: the value so far is not shifted by a digit
RECURSIVE ParseDigits_nocarry(_, _)
ParseDigits_nocarry(s, acc) ==
    IF s = <<>> THEN Some(acc)
    ELSE IF ~IsDigit(Head(s)) THEN None
    ELSE LET v == acc + DigitVal(Head(s))
         IN  IF v > U8Max THEN None ELSE ParseDigits_nocarry(Tail(s), v)

\* u8::from_str on the digits left of a string, acc the value so far
RECURSIVE ParseDigits(_, _)
ParseDigits(s, acc) ==
    IF s = <<>> THEN Some(acc)
    ELSE IF ~IsDigit(Head(s)) THEN None
    ELSE LET v == acc * 10 + DigitVal(Head(s))
         IN  IF v > U8Max THEN None ELSE ParseDigits(Tail(s), v)

\* variant: the empty string parses as 0
ParseU8_emptyzero(s) ==
    IF s = <<>> THEN Some(0)
    ELSE IF Head(s) = "+" THEN (IF Len(s) = 1 THEN None ELSE ParseDigits(Tail(s), 0))
    ELSE ParseDigits(s, 0)

\* temp.parse::<u8>().ok()
ParseU8(s) ==
    IF s = <<>> THEN None
    ELSE IF Head(s) = "+" THEN (IF Len(s) = 1 THEN None ELSE ParseDigits(Tail(s), 0))
    ELSE ParseDigits(s, 0)

\* WeekRange::from
WeekRangeFrom(value) == [input |-> value, range |-> None]

\* the `while let` loop of next(): consumes characters up to the end of one
\* token; ok is FALSE when the `?` on the start of a range returned None
\* (the println! of each character is not modelled)
RECURSIVE Scan(_, _, _)
Scan(input, temp, start) ==
    IF input = <<>> THEN [input |-> input, temp |-> temp, start |-> start, ok |-> TRUE]
    ELSE LET c == Head(input)
             rest == Tail(input)
         IN  IF c = "-" THEN
                 LET p == ParseU8(temp)
                 IN  IF p = None
                     THEN [input |-> rest, temp |-> temp, start |-> start, ok |-> FALSE]
                     ELSE Scan(rest, <<>>, p[1])
             ELSE IF c = "," /\ rest # <<>> /\ Head(rest) = " " THEN
                 [input |-> Tail(rest), temp |-> temp, start |-> start, ok |-> TRUE]
             ELSE IF c = "," THEN
                 \* iter.next() has consumed the character after the comma
                 Scan(IF rest = <<>> THEN rest ELSE Tail(rest), Append(temp, c), start)
             ELSE Scan(rest, Append(temp, c), start)

\* variant: start + 1..end
NewRange_halfopen(start, end) ==
    [start |-> (start + 1) % (U8Max + 1), end |-> end % (U8Max + 1)]

\* variant: a range whose end is below its start runs from the end up
NewRange_upwards(start, end) ==
    IF end < start THEN [start |-> end, end |-> (start + 1) % (U8Max + 1)]
    ELSE [start |-> (start + 1) % (U8Max + 1), end |-> (end + 1) % (U8Max + 1)]

\* start + 1..end + 1 with wrapping u8 additions
NewRange(start, end) ==
    [start |-> (start + 1) % (U8Max + 1), end |-> (end + 1) % (U8Max + 1)]

\* WeekRange::next: the outcomes of one call, [it, item, panic].  The two u8
\* additions overflow at 255: a build with overflow checks panics, one
\* without wraps, so both outcomes are possible there.
WRNext(it) ==
    IF it.range # None /\ it.range[1].start < it.range[1].end THEN
        {[it |-> [it EXCEPT !.range = Some([start |-> it.range[1].start + 1,
                                             end |-> it.range[1].end])],
          item |-> Some(it.range[1].start), panic |-> FALSE]}
    ELSE
        LET sc == Scan(it.input, <<>>, 0)
            end == ParseU8(sc.temp)
            stop == [it |-> [input |-> sc.input, range |-> None],
                     item |-> None, panic |-> FALSE]
        IN  IF ~sc.ok \/ end = None THEN {stop}
            ELSE IF sc.start = 0 THEN
                {[it |-> [input |-> sc.input, range |-> None],
                  item |-> end, panic |-> FALSE]}
            ELSE
                {[it |-> [input |-> sc.input, range |-> Some(NewRange(sc.start, end[1]))],
                  item |-> Some(sc.start), panic |-> FALSE]}
                \cup
                (IF sc.start = U8Max \/ end[1] = U8Max
                 THEN {[it |-> [input |-> sc.input, range |-> None],
                        item |-> None, panic |-> TRUE]}
                 ELSE {})

-----------------------------------------------------------------------------
(* The values every specification starts from *)

NoResult == [tag |-> "Running", err |-> "", schedule |-> None]
NoTry == [tag |-> "Running", err |-> "", val |-> None]
EmptyMask == [i \in 0..(MaskLen - 1) |-> FALSE]

\* no Token is in play
NoToken == clock = 0 /\ token = None

Idle ==
    /\ fetched = None
    /\ calls = <<>>
    /\ new_week = None
    /\ got_day = None
    /\ idx = 0
    /\ out = <<>>
    /\ weeks_mask = EmptyMask
    /\ try_result = NoTry
    /\ todo = <<>>
    /\ resolved = <<>>
    /\ schedule = None
    /\ result = NoResult

-----------------------------------------------------------------------------
(* SpecWR: one WeekRange, driven by next() calls *)

WRTokMenu ==
    <<TSingle(2), TSingle(10), TSingle(0), TSingle(300),
      TRange(1, 3), TRange(2, 2), TRange(3, 1), TRange(3, 255), TRange(255, 1),
      TWord, TNoEnd(2), TNoStart(2)>>

\* the strings of the week_parser tests, "3-5, 5-7", and ranges whose end is
\* below their start
WRFixtures ==
    <<<<TSingle(11)>>,
      <<TRange(13, 17)>>,
      <<TRange(30, 37), TSingle(39), TRange(40, 42), TRange(44, 50)>>,
      <<TRange(3, 5), TRange(5, 7)>>,
      <<TRange(5, 3), TSingle(7)>>,
      <<TRange(3, 2), TRange(53, 1), TRange(2, 1)>>>>

SpaceMenu == {0, 1, 2}

\* index in out of the first None, 0 when there is none yet
FirstNone == IF \E i \in DOMAIN out : out[i] = None
             THEN CHOOSE i \in DOMAIN out : out[i] = None /\ \A j \in 1..(i - 1) : out[j] # None
             ELSE 0

\* what a `for` loop or collect() over the iterator has seen
Collected ==
    LET n == IF FirstNone = 0 THEN Len(out) ELSE FirstNone - 1
    IN  [i \in 1..n |-> out[i][1]]

WRToks == toks[1].base

InitWR ==
    /\ \/ \E ix \in SeqsUpTo(DOMAIN WRTokMenu, MaxTokens), n \in SpaceMenu :
             LET ts == Pick(WRTokMenu, ix)
             IN  /\ toks = <<Triple(ts, <<>>, <<>>)>>
                 /\ spaces = n
                 /\ iter = WeekRangeFrom(Join(ts, n))
       \/ \E k \in DOMAIN WRFixtures :
             /\ toks = <<Triple(WRFixtures[k], <<>>, <<>>)>>
             /\ spaces = 1
             /\ iter = WeekRangeFrom(Join(WRFixtures[k], 1))
    /\ data = [json_ok |-> TRUE, records |-> <<>>]
    /\ start_date = None
    /\ pc = "wr"
    /\ NoToken
    /\ Idle

\* one call of next() on the iterator
WeekRangeNext ==
    /\ pc = "wr"
    /\ FirstNone = 0 \/ Len(out) - FirstNone < MaxExtraCalls
    /\ \E o \in WRNext(iter) :
          IF o.panic
          THEN /\ pc' = "done"
               /\ result' = [NoResult EXCEPT !.tag = "Panic"]
               /\ UNCHANGED <<iter, out>>
          ELSE /\ iter' = o.it
               /\ out' = Append(out, o.item)
               /\ UNCHANGED <<pc, result>>
    /\ UNCHANGED <<clock, token, calls, fetched, start_date, new_week, got_day, toks, spaces, data, idx, weeks_mask, try_result, todo, resolved, schedule>>

NextWR == WeekRangeNext

SpecWR == InitWR /\ [][NextWR]_vars

-----------------------------------------------------------------------------
(* schedule.rs: the fields of a record, and the library parsers they go to *)

\* the guid of the record in the occasion::deserialize test
ValidGuid == "afbae58f-c35e-4480-bfd1-574fc8de5572"

\* Uuid::parse_str
UuidParseStr(s) == IF s = ValidGuid THEN Some(s) ELSE None

WeekdayNames == <<"Mon", "Tue", "Wed", "Thu", "Fri", "Sat", "Sun">>

\* Weekday::try_from(u8)
WeekdayTryFrom(n) == IF n \in 0..6 THEN Some(WeekdayNames[n + 1]) ELSE None

\* the timestamps that match "%Y-%m-%d %H:%M:%S%.f", with their time of day
TimeOfDay ==
    "1970-01-01 08:20:00.0" :> <<8, 20, 0>> @@
    "1970-01-01 09:30:00.0" :> <<9, 30, 0>> @@
    "1970-01-01 07:00:00" :> <<7, 0, 0>> @@
    "1970-01-01 07:45:00.000" :> <<7, 45, 0>>

\* NaiveTime::parse_from_str(s, "%Y-%m-%d %H:%M:%S%.f")
NaiveTimeParse(s) == IF s \in DOMAIN TimeOfDay THEN Some(TimeOfDay[s]) ELSE None

Ok(v) == [tag |-> "Ok", err |-> "", val |-> Some(v)]
Err(e) == [tag |-> "Err", err |-> e, val |-> None]

\* the `for (i, week) in weeks_mask.iter().enumerate()` loop: the indices set
\* in the mask, ascending
RECURSIVE MaskToWeeksFrom(_, _)
MaskToWeeksFrom(mask, i) ==
    IF i >= MaskLen THEN <<>>
    ELSE (IF mask[i] THEN <<i>> ELSE <<>>) \o MaskToWeeksFrom(mask, i + 1)

\* variant: the mask is read from its last index down
RECURSIVE MaskToWeeksDown(_, _)
MaskToWeeksDown(mask, i) ==
    IF i < 0 THEN <<>>
    ELSE (IF mask[i] THEN <<i>> ELSE <<>>) \o MaskToWeeksDown(mask, i - 1)

MaskToWeeks_descending(mask) == MaskToWeeksDown(mask, MaskLen - 1)

MaskToWeeks(mask) == MaskToWeeksFrom(mask, 0)

\* variant: end_time is parsed from start_time
TryFromFields_endunchecked(value, weeks) ==
    LET uuid == UuidParseStr(value.guid)
        week_day == WeekdayTryFrom(value.day_id)
        start_time == NaiveTimeParse(value.start_time)
        end_time == NaiveTimeParse(value.start_time)
    IN  IF uuid = None THEN Err("UuidParseError")
        ELSE IF week_day = None THEN Err("DayOfWeekError")
        ELSE IF start_time = None THEN Err("TimeParseError")
        ELSE IF end_time = None THEN Err("TimeParseError")
        ELSE Ok([id |-> value.id, uuid |-> uuid[1],
                 start_time |-> start_time[1], end_time |-> end_time[1],
                 subject_name |-> value.subject_name, room_name |-> value.room_name,
                 week_day |-> week_day[1], weeks |-> weeks])

\* variant: dayId is looked at before guid
TryFromFields_dayfirst(value, weeks) ==
    LET uuid == UuidParseStr(value.guid)
        week_day == WeekdayTryFrom(value.day_id)
        start_time == NaiveTimeParse(value.start_time)
        end_time == NaiveTimeParse(value.end_time)
    IN  IF week_day = None THEN Err("DayOfWeekError")
        ELSE IF uuid = None THEN Err("UuidParseError")
        ELSE IF start_time = None THEN Err("TimeParseError")
        ELSE IF end_time = None THEN Err("TimeParseError")
        ELSE Ok([id |-> value.id, uuid |-> uuid[1],
                 start_time |-> start_time[1], end_time |-> end_time[1],
                 subject_name |-> value.subject_name, room_name |-> value.room_name,
                 week_day |-> week_day[1], weeks |-> weeks])

\* the rest of Occasion::try_from once the weeks are known
TryFromFields(value, weeks) ==
    LET uuid == UuidParseStr(value.guid)
        week_day == WeekdayTryFrom(value.day_id)
        start_time == NaiveTimeParse(value.start_time)
        end_time == NaiveTimeParse(value.end_time)
    IN  IF uuid = None THEN Err("UuidParseError")
        ELSE IF week_day = None THEN Err("DayOfWeekError")
        ELSE IF start_time = None THEN Err("TimeParseError")
        ELSE IF end_time = None THEN Err("TimeParseError")
        ELSE Ok([id |-> value.id, uuid |-> uuid[1],
                 start_time |-> start_time[1], end_time |-> end_time[1],
                 subject_name |-> value.subject_name, room_name |-> value.room_name,
                 week_day |-> week_day[1], weeks |-> weeks])

\* Lesson::from(&Occasion)
LessonFrom(value) ==
    [start |-> value.start_time, end |-> value.end_time,
     name |-> value.subject_name, room |-> value.room_name]

-----------------------------------------------------------------------------
(* chrono::NaiveDate, as schedule.rs uses it.  A date is [year, ordinal],   *)
(* the ordinal being the day of the year from 1.  Dates of the model are    *)
(* far from NaiveDate::MIN and NaiveDate::MAX, where the checked operations *)
(* return None.                                                             *)

IsLeap(y) == (y % 4 = 0 /\ y % 100 # 0) \/ y % 400 = 0

YearLen(y) == IF IsLeap(y) THEN 366 ELSE 365

MonthLen(y, m) ==
    IF m = 2 THEN (IF IsLeap(y) THEN 29 ELSE 28)
    ELSE IF m \in {4, 6, 9, 11} THEN 30 ELSE 31

\* days of year y before the first of month m
DaysBeforeMonth(y, m) == SumSeq([i \in 1..(m - 1) |-> MonthLen(y, i)])

\* NaiveDate::from_ymd
FromYmd(y, m, d) == [year |-> y, ordinal |-> DaysBeforeMonth(y, m) + d]

\* Datelike::month and Datelike::day
MonthOf(d) ==
    CHOOSE m \in 1..12 :
        DaysBeforeMonth(d.year, m) < d.ordinal
            /\ d.ordinal <= DaysBeforeMonth(d.year, m) + MonthLen(d.year, m)

DayOf(d) == d.ordinal - DaysBeforeMonth(d.year, MonthOf(d))

\* days from 0001-01-01, a Monday, to the first of January of year y
DaysBefore(y) == 365 * (y - 1) + ((y - 1) \div 4) - ((y - 1) \div 100) + ((y - 1) \div 400)

DayNumber(d) == DaysBefore(d.year) + d.ordinal

\* Weekday::num_days_from_monday of Datelike::weekday
DaysFromMonday(d) == (DayNumber(d) - 1) % 7

\* Datelike::weekday
WeekdayOf(d) == WeekdayNames[DaysFromMonday(d) + 1]

\* the order of NaiveDate (d < e)
DateLess(d, e) == d.year < e.year \/ (d.year = e.year /\ d.ordinal < e.ordinal)

\* Datelike::with_ordinal
WithOrdinal(d, o) ==
    IF o \in 1..YearLen(d.year) THEN Some([d EXCEPT !.ordinal = o]) ELSE None

\* Datelike::with_ordinal0
WithOrdinal0(d, o) == WithOrdinal(d, o + 1)

RECURSIVE AddDays(_, _)
\* d + n days, n >= 0 (the steps of iter_days and iter_weeks)
AddDays(d, n) ==
    IF d.ordinal + n <= YearLen(d.year)
    THEN [d EXCEPT !.ordinal = @ + n]
    ELSE AddDays([year |-> d.year + 1, ordinal |-> 1],
                 n - (YearLen(d.year) - d.ordinal) - 1)

RECURSIVE SubDays(_, _)
\* d - n days, n >= 0
SubDays(d, n) ==
    IF n < d.ordinal
    THEN [d EXCEPT !.ordinal = @ - n]
    ELSE SubDays([year |-> d.year - 1, ordinal |-> YearLen(d.year - 1)], n - d.ordinal)

\* NaiveDate::checked_add_months / checked_sub_months of Months::new(12), k
\* being 1 or -1: the same month and day a year away, the day clamped to the
\* length of the month
AddYear(d, k) ==
    LET m == MonthOf(d)
        dd == DayOf(d)
        len == MonthLen(d.year + k, m)
    IN  Some(FromYmd(d.year + k, m, IF dd > len THEN len ELSE dd))

\* the n-th date (from 0) of NaiveDate::iter_weeks
IterWeeks(d, n) == AddDays(d, 7 * n)

\* the n-th date (from 0) of NaiveDate::iter_days
IterDays(d, n) == AddDays(d, n)

\* NaiveDate::week(Weekday::Mon): the NaiveWeek keeps the date
WeekOf(d) == [date |-> d, start |-> "Mon"]

\* NaiveWeek::first_day
FirstDay(w) == SubDays(w.date, DaysFromMonday(w.date))

-----------------------------------------------------------------------------
(* schedule.rs: ScheduleDay, ScheduleWeek, Schedule::from *)

\* ScheduleDay::new
ScheduleDayNew(date) == [date |-> date, lessons |-> <<>>]

\* variant: the days are counted from the date of the week
NewEmpty_fromdate(w) ==
    Some([week |-> w,
          monday |-> ScheduleDayNew(IterDays(w.date, 0)),
          tuesday |-> ScheduleDayNew(IterDays(w.date, 1)),
          wednesday |-> ScheduleDayNew(IterDays(w.date, 2)),
          thursday |-> ScheduleDayNew(IterDays(w.date, 3)),
          friday |-> ScheduleDayNew(IterDays(w.date, 4)),
          saturday |-> ScheduleDayNew(IterDays(w.date, 5)),
          sunday |-> ScheduleDayNew(IterDays(w.date, 6))])

\* ScheduleWeek::new_empty: seven days from the first day of the week (each
\* days.next()? returns a date: the iterator ends at NaiveDate::MAX only)
NewEmpty(w) ==
    Some([week |-> w,
          monday |-> ScheduleDayNew(IterDays(FirstDay(w), 0)),
          tuesday |-> ScheduleDayNew(IterDays(FirstDay(w), 1)),
          wednesday |-> ScheduleDayNew(IterDays(FirstDay(w), 2)),
          thursday |-> ScheduleDayNew(IterDays(FirstDay(w), 3)),
          friday |-> ScheduleDayNew(IterDays(FirstDay(w), 4)),
          saturday |-> ScheduleDayNew(IterDays(FirstDay(w), 5)),
          sunday |-> ScheduleDayNew(IterDays(FirstDay(w), 6))])

\* ScheduleWeek::get_day: the field of the week the match selects
GetDay(d) ==
    CASE d = "Mon" -> "monday"
      [] d = "Tue" -> "tuesday"
      [] d = "Wed" -> "wednesday"
      [] d = "Thu" -> "thursday"
      [] d = "Fri" -> "friday"
      [] d = "Sat" -> "saturday"
      [] d = "Sun" -> "sunday"

\* the weeks taken from the front of a year, and from its back
FrontWeeks == 26
BackWeeks == 27

\* variant: the halves of the year part at the first of July
FirstHalf_bymonth(s) == MonthOf(s) <= 6

\* `start < start.with_ordinal(365 / 2).unwrap()`
FirstHalf(s) == DateLess(s, WithOrdinal(s, 365 \div 2)[1])

\* variant: every week is taken from the year of the anchor date
ChainedWeeks_sameyear(s, n) ==
    IF n < FrontWeeks + BackWeeks THEN Some(IterWeeks(WithOrdinal0(s, 0)[1], n)) ELSE None

\* what the n-th call (from 0) of weeks.next() returns in Schedule::from:
\* take(26) of one year chained with skip(26).take(27) of the year before it
ChainedWeeks(s, n) ==
    LET start_of_year == WithOrdinal0(s, 0)[1]
        skip == FrontWeeks
    IN  IF n >= FrontWeeks + BackWeeks THEN None
        ELSE IF FirstHalf(s)
        THEN IF n < FrontWeeks
             THEN Some(IterWeeks(start_of_year, n))
             ELSE Some(IterWeeks(AddYear(start_of_year, -1)[1], skip + (n - FrontWeeks)))
        ELSE IF n < FrontWeeks
             THEN Some(IterWeeks(AddYear(start_of_year, 1)[1], n))
             ELSE Some(IterWeeks(start_of_year, skip + (n - FrontWeeks)))

\* Schedule::from: 53 empty weeks, each the week of the next date of `weeks`
ScheduleFrom(s) ==
    [i \in 0..(NumWeeks - 1) |-> NewEmpty(WeekOf(ChainedWeeks(s, i)[1]))[1]]

\* what Local::now() may give deserialize: a date in each half of a year
TodayMenu == <<FromYmd(2024, 4, 1), FromYmd(2024, 9, 1)>>

\* Schedule::from of each of these dates
TodaySchedule == [d \in Elems(TodayMenu) |-> ScheduleFrom(d)]

-----------------------------------------------------------------------------
(* schedule.rs: Schedule::deserialize, with Occasion::try_from in its loop *)

raw == data.records

Panic ==
    /\ pc' = "done"
    /\ result' = [NoResult EXCEPT !.tag = "Panic"]

\* serde_json::from_str, then Schedule::from of today's date
Deserialize ==
    /\ pc = "start"
    /\ IF ~data.json_ok
       THEN /\ pc' = "done"
            /\ result' = [NoResult EXCEPT !.tag = "Err", !.err = "SerdeError"]
            /\ UNCHANGED schedule
       ELSE /\ pc' = "loop"
            /\ schedule' = Some(TodaySchedule[start_date[1]])
            /\ UNCHANGED result
    /\ UNCHANGED <<clock, token, calls, fetched, start_date, new_week, got_day, toks, spaces, data, idx, iter, out, weeks_mask, try_result, todo, resolved>>

\* `for raw_occasion in raw`: the next record enters try_from, or the loop
\* is over and deserialize returns Ok(schedule)
NextOccasion ==
    /\ pc = "loop"
    /\ IF idx < Len(raw)
       THEN /\ idx' = idx + 1
            /\ weeks_mask' = EmptyMask
            /\ iter' = WeekRangeFrom(raw[idx + 1].weeks_string)
            /\ try_result' = NoTry
            /\ pc' = "base"
            /\ UNCHANGED result
       ELSE /\ pc' = "done"
            /\ result' = [NoResult EXCEPT !.tag = "Ok", !.schedule = schedule]
            /\ UNCHANGED <<idx, weeks_mask, iter, try_result>>
    /\ UNCHANGED <<clock, token, calls, fetched, start_date, new_week, got_day, toks, spaces, data, out, todo, resolved, schedule>>

\* one turn of a `for week in WeekRange::from(..)` loop that writes val to
\* the mask; when the iterator ends, the loop over after begins
ForWeek(val, after_pc, after) ==
    /\ \E o \in WRNext(iter) :
          IF o.panic THEN Panic /\ UNCHANGED <<iter, weeks_mask>>
          ELSE IF o.item = None
          THEN /\ iter' = WeekRangeFrom(after)
               /\ pc' = after_pc
               /\ UNCHANGED <<weeks_mask, result>>
          ELSE IF o.item[1] >= MaskLen
          THEN Panic /\ UNCHANGED <<iter, weeks_mask>>
          ELSE /\ weeks_mask' = [weeks_mask EXCEPT ![o.item[1]] = val]
               /\ iter' = o.it
               /\ UNCHANGED <<pc, result>>
    /\ UNCHANGED <<clock, token, calls, fetched, start_date, new_week, got_day, toks, spaces, data, idx, out, try_result, todo, resolved, schedule>>

BaseWeeks ==
    /\ pc = "base"
    /\ ForWeek(TRUE, "excl", raw[idx].excluding_weeks_string)

\* variant: the excluded weeks are set
ExcludedWeeks_sets ==
    /\ pc = "excl"
    /\ ForWeek(TRUE, "incl", raw[idx].including_weeks_string)

ExcludedWeeks ==
    /\ pc = "excl"
    /\ ForWeek(FALSE, "incl", raw[idx].including_weeks_string)

\* variant: the included weeks are cleared
IncludedWeeks_unsets ==
    /\ pc = "incl"
    /\ ForWeek(FALSE, "convert", <<>>)

IncludedWeeks ==
    /\ pc = "incl"
    /\ ForWeek(TRUE, "convert", <<>>)

\* variant: a record that fails is skipped
Convert_skips ==
    /\ pc = "convert"
    /\ LET r == TryFromFields(raw[idx], MaskToWeeks(weeks_mask))
       IN  /\ try_result' = r
           /\ IF r.tag = "Err"
              THEN /\ pc' = "loop"
                   /\ UNCHANGED <<todo, resolved, result>>
              ELSE /\ todo' = r.val[1].weeks
                   /\ resolved' = Append(resolved, r.val[1])
                   /\ pc' = IF r.val[1].weeks = <<>> THEN "loop" ELSE "place"
                   /\ UNCHANGED result
    /\ UNCHANGED <<clock, token, calls, fetched, start_date, new_week, got_day, toks, spaces, data, idx, iter, out, weeks_mask, schedule>>

\* the mask becomes weeks, the fields are parsed, try_from returns; on Err
\* the `?` of deserialize returns it
Convert ==
    /\ pc = "convert"
    /\ LET r == TryFromFields(raw[idx], MaskToWeeks(weeks_mask))
       IN  /\ try_result' = r
           /\ IF r.tag = "Err"
              THEN /\ pc' = "done"
                   /\ result' = [NoResult EXCEPT !.tag = "Err", !.err = r.err]
                   /\ UNCHANGED <<todo, resolved>>
              ELSE /\ todo' = r.val[1].weeks
                   /\ resolved' = Append(resolved, r.val[1])
                   /\ pc' = IF r.val[1].weeks = <<>> THEN "loop" ELSE "place"
                   /\ UNCHANGED result
    /\ UNCHANGED <<clock, token, calls, fetched, start_date, new_week, got_day, toks, spaces, data, idx, iter, out, weeks_mask, schedule>>

\* the order of NaiveTime, on [h, m, s]
TimeLess(t, u) ==
    \/ t[1] < u[1]
    \/ t[1] = u[1] /\ t[2] < u[2]
    \/ t[1] = u[1] /\ t[2] = u[2] /\ t[3] < u[3]

\* variant of push: a lesson the day already has is not added again
PushNew(lessons, lesson) ==
    IF \E i \in DOMAIN lessons : lessons[i] = lesson THEN lessons ELSE Append(lessons, lesson)

\* variant of push: the lessons of a day are kept in the order of their start
PushByStart(lessons, lesson) ==
    LET n == Cardinality({i \in DOMAIN lessons : ~TimeLess(lesson.start, lessons[i].start)})
    IN  SubSeq(lessons, 1, n) \o <<lesson>> \o SubSeq(lessons, n + 1, Len(lessons))

\* variant of push: the new lesson is put in front
PushFront(lessons, lesson) == <<lesson>> \o lessons

\* Vec::push
Push(lessons, lesson) == Append(lessons, lesson)

\* one turn of `for week in occasion.weeks`: week - 1 is a u8 subtraction
\* that panics or wraps to 255 at week 0, and 255 is no index of weeks
Place ==
    /\ pc = "place"
    /\ LET week == Head(todo)
           occasion == try_result.val[1]
           slot == (week + U8Max) % (U8Max + 1)
       IN  IF slot >= NumWeeks
           THEN Panic /\ UNCHANGED <<todo, schedule>>
           ELSE /\ schedule' = Some([schedule[1] EXCEPT
                       ![slot][GetDay(occasion.week_day)].lessons = Push(@, LessonFrom(occasion))])
                /\ todo' = Tail(todo)
                /\ pc' = IF Tail(todo) = <<>> THEN "loop" ELSE "place"
                /\ UNCHANGED result
    /\ UNCHANGED <<clock, token, calls, fetched, start_date, new_week, got_day, toks, spaces, data, idx, iter, out, weeks_mask, try_result, resolved>>

Next ==
    \/ Deserialize
    \/ NextOccasion
    \/ BaseWeeks
    \/ ExcludedWeeks
    \/ IncludedWeeks
    \/ Convert
    \/ Place

-----------------------------------------------------------------------------
(* The records the specifications start from *)

ValidFields ==
    [guid |-> ValidGuid, day_id |-> 0,
     start_time |-> "1970-01-01 08:20:00.0", end_time |-> "1970-01-01 09:30:00.0",
     subject_name |-> "IDRIDO02", room_name |-> "IKSU"]

\* a RawOccasion, its week strings written from the token lists of tr
MkRaw(id, tr, f) ==
    [id |-> id, guid |-> f.guid, day_id |-> f.day_id,
     start_time |-> f.start_time, end_time |-> f.end_time,
     subject_name |-> f.subject_name, room_name |-> f.room_name,
     weeks_string |-> Join(tr.base, 1),
     excluding_weeks_string |-> Join(tr.excl, 1),
     including_weeks_string |-> Join(tr.incl, 1)]

\* the record of the occasion::deserialize test
FixtureToks ==
    Triple(<<TRange(34, 43), TRange(45, 51), TRange(3, 9), TRange(11, 13), TRange(15, 24)>>,
           <<>>, <<>>)

FixtureWeeks ==
    <<3, 4, 5, 6, 7, 8, 9, 11, 12, 13, 15, 16, 17, 18, 19, 20, 21, 22, 23, 24, 34, 35,
      36, 37, 38, 39, 40, 41, 42, 43, 45, 46, 47, 48, 49, 50, 51>>

OccTokMenu == <<TSingle(2), TRange(1, 3), TSingle(53), TSingle(0), TSingle(54), TWord>>

\* tokens s written into the three strings, cut after the p-th and the q-th
Split(s, p, q) ==
    Triple(SubSeq(s, 1, p), SubSeq(s, p + 1, q), SubSeq(s, q + 1, Len(s)))

FewTriples ==
    <<Triple(<<TRange(1, 3)>>, <<TSingle(2)>>, <<>>),
      Triple(<<TSingle(54)>>, <<>>, <<>>),
      Triple(<<>>, <<>>, <<>>),
      FixtureToks>>

FieldMenu ==
    {[ValidFields EXCEPT !.guid = g, !.day_id = d, !.start_time = s, !.end_time = e]
     : g \in {ValidGuid, "afbae58f"}, d \in {0, 6, 7},
       s \in {"1970-01-01 08:20:00.0", "08:20"}, e \in {"1970-01-01 09:30:00.0", ""}}

\* one record: every way to write at most MaxOccTokens tokens into the three
\* strings with valid fields, or a few week strings with every field menu
InitOcc ==
    /\ \/ \E ix \in SeqsUpTo(DOMAIN OccTokMenu, MaxOccTokens) :
             \E p \in 0..Len(ix) : \E q \in p..Len(ix) :
                LET tr == Split(Pick(OccTokMenu, ix), p, q)
                IN  /\ toks = <<tr>>
                    /\ data = [json_ok |-> TRUE,
                               records |-> <<MkRaw(36505, tr, ValidFields)>>]
       \/ \E k \in DOMAIN FewTriples, f \in FieldMenu :
             /\ toks = <<FewTriples[k]>>
             /\ data = [json_ok |-> TRUE,
                        records |-> <<MkRaw(36505, FewTriples[k], f)>>]
    /\ start_date = Some(TodayMenu[1])
    /\ spaces = 1
    /\ pc = "start"
    /\ iter = WeekRangeFrom(<<>>)
    /\ NoToken
    /\ Idle

SpecOcc == InitOcc /\ [][Next]_vars

OtherFields ==
    [ValidFields EXCEPT !.start_time = "1970-01-01 07:00:00",
                        !.end_time = "1970-01-01 07:45:00.000",
                        !.subject_name = "MATMAT01", !.room_name = "A1"]

RecMenu ==
    <<[tr |-> Triple(<<TRange(1, 3)>>, <<>>, <<>>), f |-> ValidFields],
     [tr |-> Triple(<<TSingle(2), TSingle(53)>>, <<>>, <<>>), f |-> OtherFields],
     [tr |-> Triple(<<TRange(1, 3)>>, <<TSingle(2)>>, <<>>), f |-> ValidFields],
     [tr |-> Triple(<<TSingle(53)>>, <<>>, <<TSingle(1)>>), f |-> [OtherFields EXCEPT !.day_id = 6]],
     [tr |-> Triple(<<>>, <<>>, <<>>), f |-> ValidFields],
     [tr |-> Triple(<<TSingle(2)>>, <<>>, <<>>), f |-> [ValidFields EXCEPT !.guid = "afbae58f"]],
     [tr |-> Triple(<<TSingle(2)>>, <<>>, <<>>), f |-> [ValidFields EXCEPT !.day_id = 7]],
     [tr |-> Triple(<<TSingle(2)>>, <<>>, <<>>), f |-> [ValidFields EXCEPT !.start_time = "08:20"]],
     [tr |-> Triple(<<TSingle(2)>>, <<>>, <<>>), f |-> [ValidFields EXCEPT !.end_time = ""]],
     [tr |-> Triple(<<TSingle(0)>>, <<>>, <<>>), f |-> ValidFields],
     [tr |-> Triple(<<TSingle(54)>>, <<>>, <<>>), f |-> ValidFields],
     [tr |-> Triple(<<TSingle(300)>>, <<>>, <<>>), f |-> ValidFields]>>

Init ==
    /\ \/ /\ data = [json_ok |-> FALSE, records |-> <<>>]
          /\ toks = <<>>
       \/ \E ix \in SeqsUpTo(DOMAIN RecMenu, MaxRecords) :
             LET rs == Pick(RecMenu, ix)
             IN  /\ toks = [i \in DOMAIN rs |-> rs[i].tr]
                 /\ data = [json_ok |-> TRUE,
                            records |-> [i \in DOMAIN rs |-> MkRaw(i, rs[i].tr, rs[i].f)]]
    /\ \E k \in DOMAIN TodayMenu : start_date = Some(TodayMenu[k])
    /\ spaces = 1
    /\ pc = "start"
    /\ iter = WeekRangeFrom(<<>>)
    /\ NoToken
    /\ Idle

Spec == Init /\ [][Next]_vars

-----------------------------------------------------------------------------
(* What the claims speak of *)

\* a token of week numbers: a week in 1..53, or a range of them, low to high
WeekTok(t) ==
    \/ t.k = "single" /\ t.a \in 1..NumWeeks
    \/ t.k = "range" /\ 1 <= t.a /\ t.a <= t.b /\ t.b <= NumWeeks

WeekToks(ts) == \A i \in DOMAIN ts : WeekTok(ts[i])

WeekRecord(tr) == WeekToks(tr.base) /\ WeekToks(tr.excl) /\ WeekToks(tr.incl)

\* the weeks a list of week tokens lists
Listed(ts) == Elems(ExpandAll(ts))

\* a token WeekRange can take whole: a single u8, or a range a-b, a from 1,
\* whose b + 1 is a u8 too
WellFormedTok(t) ==
    \/ t.k = "single" /\ t.a \in 0..U8Max
    \/ t.k = "range" /\ 1 <= t.a /\ t.a <= t.b /\ t.b < U8Max

WellFormed(ts) == \A i \in DOMAIN ts : WellFormedTok(ts[i])

IsPrefix(s, t) == Len(s) <= Len(t) /\ SubSeq(t, 1, Len(s)) = s

WRDone == FirstNone # 0

Resolved == try_result.tag = "Ok"

occasion == try_result.val[1]

StrictlyAscending(s) == \A i \in 1..(Len(s) - 1) : s[i] < s[i + 1]

Count(s, x) == Cardinality({i \in DOMAIN s : s[i] = x})

-----------------------------------------------------------------------------
(* Occasion::try_from: the week mask *)

\* C1: for week strings of week tokens (values in 1..53), every week listed
\* in includingWeeksString is in the resolved weeks, whether or not
\* excludingWeeksString or weeksString list it too
C1_InclusionWins ==
    (Resolved /\ WeekRecord(toks[idx]))
        => \A w \in Listed(toks[idx].incl) : w \in Elems(occasion.weeks)

C1_Witness ==
    /\ Resolved
    /\ WeekRecord(toks[idx])
    /\ \E w \in Listed(toks[idx].incl) :
          /\ w \in Listed(toks[idx].excl)
          /\ w \in Listed(toks[idx].base)
          /\ w \in Elems(occasion.weeks)

\* C2: for week strings of week tokens, a week listed in weeksString and in
\* excludingWeeksString but not in includingWeeksString is not in the
\* resolved weeks
C2_ExclusionOverridesBase ==
    (Resolved /\ WeekRecord(toks[idx]))
        => \A w \in (Listed(toks[idx].base) \cap Listed(toks[idx].excl))
                        \ Listed(toks[idx].incl) :
              w \notin Elems(occasion.weeks)

C2_Witness ==
    /\ Resolved
    /\ WeekRecord(toks[idx])
    /\ \E w \in (Listed(toks[idx].base) \cap Listed(toks[idx].excl))
                    \ Listed(toks[idx].incl) :
          w \notin Elems(occasion.weeks)
    /\ occasion.weeks # <<>>

\* C3: the weeks of every resolved Occasion are strictly ascending (so
\* without duplicates) and hold only weeks that weeksString or
\* includingWeeksString names, whatever the order and the repetitions of the
\* tokens; the record of the occasion::deserialize test resolves to its 37
\* weeks in ascending order
C3_WeeksAscendingAndNamed ==
    Resolved =>
        /\ StrictlyAscending(occasion.weeks)
        /\ Elems(occasion.weeks) \subseteq Named(toks[idx].base) \cup Named(toks[idx].incl)
        /\ toks[idx] = FixtureToks => occasion.weeks = FixtureWeeks

C3_Witness ==
    /\ Resolved
    /\ toks[idx] = FixtureToks
    /\ Len(occasion.weeks) = 37
    /\ occasion.weeks[1] = 3
    /\ occasion.weeks[37] = 51

-----------------------------------------------------------------------------
(* WeekRange *)

\* C4: for well-formed tokens separated by ", ", WeekRange yields the weeks
\* of the tokens in the order of the tokens: n for a single n, and
\* a, a+1, ..., b for a range a-b with 1 <= a <= b (a once when a = b)
C4_TokensInOrder ==
    (WellFormed(WRToks) /\ spaces = 1) =>
        /\ result.tag # "Panic"
        /\ IsPrefix(Collected, ExpandAll(WRToks))
        /\ WRDone => Collected = ExpandAll(WRToks)
        /\ (WRDone /\ WRToks = WRFixtures[3]) =>
               Collected = <<30, 31, 32, 33, 34, 35, 36, 37, 39, 40, 41, 42,
                             44, 45, 46, 47, 48, 49, 50>>

C4_Witness ==
    /\ WRDone
    /\ spaces = 1
    /\ WRToks = <<TRange(1, 3), TSingle(10), TRange(2, 2)>>
    /\ Collected = <<1, 2, 3, 10, 2>>

\* C5: for well-formed tokens, a comma followed by zero, one or several
\* spaces between the tokens yields the weeks that ", " yields (by C4, the
\* weeks of the tokens in order)
C5_VariableSpacing ==
    (WellFormed(WRToks) /\ WRDone) => Collected = ExpandAll(WRToks)

\* index of the first malformed token of ts, 0 when there is none
FirstMalformed(ts) ==
    IF \E i \in DOMAIN ts : Malformed(ts[i])
    THEN CHOOSE i \in DOMAIN ts : Malformed(ts[i]) /\ \A j \in 1..(i - 1) : ~Malformed(ts[j])
    ELSE 0

\* C6: when the string holds a malformed token (not a number, or a dash
\* with a bound missing), iterating up to the first None yields the weeks
\* of the tokens before the first malformed one, in order, and nothing of
\* that token or of the tokens after it; no call up to that None fails
C6_TruncatesAtMalformed ==
    LET m == FirstMalformed(WRToks)
        before == SubSeq(WRToks, 1, m - 1)
    IN  (spaces = 1 /\ m # 0 /\ WellFormed(before)) =>
            /\ result.tag = "Panic" => WRDone
            /\ IsPrefix(Collected, ExpandAll(before))
            /\ WRDone => Collected = ExpandAll(before)

C6_Witness ==
    /\ WRDone
    /\ spaces = 1
    /\ WRToks = <<TRange(1, 3), TNoEnd(2), TSingle(10)>>
    /\ Collected = <<1, 2, 3>>

\* C7: for well-formed tokens separated by ", ", WeekRange yields as many
\* values as the sizes of the tokens add up to, and each week once per token
\* covering it: duplicates are not collapsed
C7_DuplicatesKept ==
    (WellFormed(WRToks) /\ spaces = 1 /\ WRDone) =>
        /\ Len(Collected) = SumSeq([i \in DOMAIN WRToks |-> Len(Expand(WRToks[i]))])
        /\ \A w \in 0..U8Max :
              Count(Collected, w) =
                  Cardinality({i \in DOMAIN WRToks : w \in Elems(Expand(WRToks[i]))})

C7_Witness ==
    /\ WRDone
    /\ WRToks = <<TRange(3, 5), TRange(5, 7)>>
    /\ Collected = <<3, 4, 5, 5, 6, 7>>

-----------------------------------------------------------------------------
(* Occasion::try_from: the mask's index 0, and the fields *)

\* C8: index 0 of the week mask is never set, and the weeks of every
\* resolved Occasion are in 1..53, for every content of the week strings
C8_IndexZeroNeverSet ==
    /\ ~weeks_mask[0]
    /\ Resolved => \A w \in Elems(occasion.weeks) : w \in 1..NumWeeks

\* the errors the fields of a record call for
FieldErrors(r) ==
    (IF UuidParseStr(r.guid) = None THEN {"UuidParseError"} ELSE {})
    \cup (IF r.day_id \notin 0..6 THEN {"DayOfWeekError"} ELSE {})
    \cup (IF r.start_time \notin DOMAIN TimeOfDay \/ r.end_time \notin DOMAIN TimeOfDay
          THEN {"TimeParseError"} ELSE {})

\* C9: whenever try_from returns for a record whose guid, dayId, startTime
\* or endTime is invalid, it returns an error of the kind of an invalid field
\* (UuidParseError, DayOfWeekError, TimeParseError) and no Occasion; for week
\* strings of weeks in 1..53 nothing panics and try_from does return: that
\* error, or Ok when the four fields are valid
C9_FieldErrors ==
    idx >= 1 =>
        LET r == raw[idx]
        IN  /\ (try_result.tag # "Running" /\ FieldErrors(r) # {}) =>
                   /\ try_result.tag = "Err"
                   /\ try_result.err \in FieldErrors(r)
                   /\ try_result.val = None
            /\ WeekRecord(toks[idx]) =>
                   /\ result.tag # "Panic"
                   /\ pc \in {"place", "loop", "done"} =>
                          /\ try_result.tag # "Running"
                          /\ FieldErrors(r) = {} => Resolved

C9_Witness ==
    /\ try_result.tag = "Err"
    /\ try_result.err = "TimeParseError"
    /\ try_result.val = None
    /\ raw[idx].start_time \in DOMAIN TimeOfDay
    /\ raw[idx].end_time \notin DOMAIN TimeOfDay

-----------------------------------------------------------------------------
(* Schedule::deserialize *)

\* the records whose resolution returns an error
Failing == {i \in DOMAIN raw : TryFromFields(raw[i], <<>>).tag = "Err"}

LessonCount(s) ==
    SumSeq([i \in 1..NumWeeks |->
              SumSeq([d \in 1..7 |-> Len(s[i - 1][GetDay(WeekdayNames[d])].lessons)])])

\* C10: when deserialize returns and the resolution of a record returns an
\* error, the result is the error of the first such record and carries no
\* Schedule; otherwise it is Ok and every record is resolved and placed.
\* With week strings of weeks in 1..53 in every record, deserialize does not
\* panic
C10_AllOrNothing ==
    /\ (\A i \in DOMAIN toks : WeekRecord(toks[i])) => result.tag # "Panic"
    /\ (pc = "done" /\ data.json_ok /\ result.tag # "Panic") =>
        IF Failing # {}
        THEN LET first == CHOOSE i \in Failing : \A j \in Failing : i <= j
             IN  /\ result.tag = "Err"
                 /\ result.err = TryFromFields(raw[first], <<>>).err
                 /\ result.schedule = None
        ELSE /\ result.tag = "Ok"
             /\ result.schedule # None
             /\ Len(resolved) = Len(raw)
             /\ LessonCount(result.schedule[1])
                    = SumSeq([i \in DOMAIN resolved |-> Len(resolved[i].weeks)])

C10_Witness ==
    /\ pc = "done"
    /\ Len(raw) = 2
    /\ Failing = {2}
    /\ result.tag = "Err"
    /\ result.schedule = None
    /\ LessonCount(schedule[1]) = 3

-----------------------------------------------------------------------------
(* Empty week strings *)

NoWeekToks == Triple(<<>>, <<>>, <<>>)

\* C11: a record whose three week strings are empty and whose other fields
\* are valid: every WeekRange over them ends at once (no week is written to
\* the mask), try_from returns Ok with weeks = [], no lesson is placed in any
\* slot, and deserialize returns Ok; nothing fails
C11_EmptyWeekStrings ==
    (idx >= 1 /\ toks[idx] = NoWeekToks /\ FieldErrors(raw[idx]) = {}) =>
        /\ raw[idx].weeks_string = <<>>
        /\ raw[idx].excluding_weeks_string = <<>>
        /\ raw[idx].including_weeks_string = <<>>
        /\ weeks_mask = EmptyMask
        /\ result.tag \notin {"Panic", "Err"}
        /\ pc # "place"
        /\ pc \in {"loop", "done"} => Resolved /\ occasion.weeks = <<>>
        /\ LessonCount(schedule[1]) = 0
        /\ pc = "done" => result.tag = "Ok" /\ LessonCount(result.schedule[1]) = 0

C11_Witness ==
    /\ pc = "done"
    /\ toks[1] = NoWeekToks
    /\ raw[1].weeks_string = <<>>
    /\ FieldErrors(raw[1]) = {}
    /\ result.tag = "Ok"
    /\ occasion.weeks = <<>>
    /\ LessonCount(result.schedule[1]) = 0

-----------------------------------------------------------------------------
(* SpecFrom: Schedule::from of an anchor date, and ScheduleWeek::new_empty   *)
(* of the week of that date followed by get_day                             *)

\* the anchor dates are taken from the NumYears years up to LastYear
NumYears == 28
LastYear == 2024

AnchorOrdinals == {1, 2, 3, 4, 5, 6, 7, 181, 182, 183, 365, 366}

\* the dates of the doc tests and of the week tests
FixtureDates ==
    {FromYmd(2024, 4, 1), FromYmd(2024, 9, 1), FromYmd(2024, 2, 5), FromYmd(2024, 3, 30),
     FromYmd(2024, 3, 25), FromYmd(2022, 8, 25)}

AnchorDates ==
    {d \in [year : (LastYear - NumYears + 1)..LastYear, ordinal : AnchorOrdinals] :
        d.ordinal <= YearLen(d.year)}
    \cup FixtureDates

InitFrom ==
    /\ \E d \in AnchorDates : start_date = Some(d)
    /\ toks = <<>>
    /\ spaces = 1
    /\ data = [json_ok |-> TRUE, records |-> <<>>]
    /\ pc = "from"
    /\ iter = WeekRangeFrom(<<>>)
    /\ NoToken
    /\ Idle

\* Schedule::from(start)
CallFrom ==
    /\ pc = "from"
    /\ schedule' = Some(ScheduleFrom(start_date[1]))
    /\ pc' = "built"
    /\ UNCHANGED <<clock, token, calls, fetched, start_date, new_week, got_day, toks, spaces, data, idx, iter, out,
                   weeks_mask, try_result, todo, resolved, result>>

\* ScheduleWeek::new_empty(start.week(Weekday::Mon))
CallNewEmpty ==
    /\ pc = "from"
    /\ new_week' = NewEmpty(WeekOf(start_date[1]))
    /\ pc' = "week"
    /\ UNCHANGED <<clock, token, calls, fetched, start_date, got_day, toks, spaces, data, idx, iter, out,
                   weeks_mask, try_result, todo, resolved, schedule, result>>

\* week.get_day(w) on the unwrapped week
CallGetDay ==
    /\ pc = "week"
    /\ new_week # None
    /\ \E w \in Elems(WeekdayNames) :
          got_day' = Some([weekday |-> w, day |-> new_week[1][GetDay(w)]])
    /\ pc' = "day"
    /\ UNCHANGED <<clock, token, calls, fetched, start_date, new_week, toks, spaces, data, idx, iter, out,
                   weeks_mask, try_result, todo, resolved, schedule, result>>

NextFrom ==
    \/ CallFrom
    \/ CallNewEmpty
    \/ CallGetDay

SpecFrom == InitFrom /\ [][NextFrom]_vars

-----------------------------------------------------------------------------
(* Schedule::from *)

anchor == start_date[1]

\* the year the front slots are taken from
FrontYear == IF anchor.ordinal < 182 THEN anchor.year ELSE anchor.year + 1

C13_YearStraddle ==
    pc = "built" =>
        IF anchor.ordinal < 182
        THEN /\ schedule[1][10].monday.date.year = anchor.year
             /\ schedule[1][40].monday.date.year = anchor.year - 1
        ELSE /\ schedule[1][10].monday.date.year = anchor.year + 1
             /\ schedule[1][40].monday.date.year = anchor.year

\* the day of the year 182 of a leap year is the 30th of June
C13_Witness ==
    /\ pc = "built"
    /\ anchor = FromYmd(2024, 6, 30)
    /\ anchor.ordinal = 182
    /\ schedule[1][10].monday.date.year = 2025
    /\ schedule[1][40].monday.date.year = 2024

\* Datelike::iso_week().week(): the week of the year of the Thursday of the
\* week of d
IsoWeek(d) ==
    LET thursday == DayNumber(d) - DaysFromMonday(d) + 3
        y == IF thursday <= DaysBefore(d.year) THEN d.year - 1
             ELSE IF thursday > DaysBefore(d.year + 1) THEN d.year + 1
             ELSE d.year
    IN  ((thursday - DaysBefore(y) - 1) \div 7) + 1

DayFields == {GetDay(w) : w \in Elems(WeekdayNames)}

\* C14: slot i holds week number i + 1: for every anchor date and every slot
\* i in 0..52, the ISO week number of the dates of slot i is i + 1
C14_SlotHoldsIsoWeek ==
    pc = "built" =>
        \A i \in 0..52 : \A f \in DayFields : IsoWeek(schedule[1][i][f].date) = i + 1

-----------------------------------------------------------------------------
(* ScheduleWeek::new_empty and get_day *)

-----------------------------------------------------------------------------
(* Schedule::deserialize: placement *)

\* occasion o has a lesson on day f of slot s
PlacedOn(o, s, f) == (s + 1) \in Elems(o.weeks) /\ GetDay(o.week_day) = f

\* the Lesson an occasion calls for
LessonOf(o) ==
    [start |-> o.start_time, end |-> o.end_time, name |-> o.subject_name, room |-> o.room_name]

\* every resolved occasion is placed: between two records, or on return
AllPlaced == pc \in {"loop", "done"} /\ schedule # None /\ result.tag \notin {"Err", "Panic"}

\* C16: when every resolved occasion is placed, each day of each slot holds,
\* for each resolved occasion with that week day and with the slot's week
\* (slot + 1) in its weeks, one Lesson with the occasion's start, end, subject
\* name and room, and nothing else: equal lessons of two occasions are both
\* kept, and the lessons of the Schedule are as many as the weeks of all
\* occasions
C16_OneLessonPerWeek ==
    AllPlaced =>
        /\ \A s \in 0..(NumWeeks - 1) : \A f \in DayFields :
              LET lessons == schedule[1][s][f].lessons
                  here == {k \in DOMAIN resolved : PlacedOn(resolved[k], s, f)}
              IN  /\ Len(lessons) = Cardinality(here)
                  /\ \A k \in here :
                        Count(lessons, LessonOf(resolved[k])) =
                            Cardinality({j \in here : LessonOf(resolved[j]) = LessonOf(resolved[k])})
        /\ \A k \in DOMAIN resolved : \A w \in Elems(resolved[k].weeks) : w \in 1..NumWeeks
        /\ LessonCount(schedule[1])
               = SumSeq([k \in DOMAIN resolved |-> Len(resolved[k].weeks)])

\* two occasions with equal lessons on the Mondays of weeks 1 and 3
C16_Witness ==
    /\ pc = "done"
    /\ result.tag = "Ok"
    /\ Len(resolved) = 2
    /\ resolved[1].weeks = <<1, 2, 3>>
    /\ resolved[2].weeks = <<1, 3>>
    /\ Len(result.schedule[1][0].monday.lessons) = 2
    /\ result.schedule[1][0].monday.lessons[1] = result.schedule[1][0].monday.lessons[2]
    /\ Len(result.schedule[1][1].monday.lessons) = 1
    /\ result.schedule[1][1].tuesday.lessons = <<>>
    /\ LessonCount(result.schedule[1]) = 5

\* C17: the lessons of a day are in the order of the occasions in the input
\* array: the lesson of the occasion at position i comes after the lessons of
\* the occasions before i placed on that day and before those of the
\* occasions after i, whatever the start times
C17_InsertionOrder ==
    AllPlaced =>
        \A s \in 0..(NumWeeks - 1) : \A f \in DayFields :
            \A i \in DOMAIN resolved :
                PlacedOn(resolved[i], s, f) =>
                    LET rank == Cardinality({k \in 1..i : PlacedOn(resolved[k], s, f)})
                    IN  /\ rank <= Len(schedule[1][s][f].lessons)
                        /\ schedule[1][s][f].lessons[rank] = LessonOf(resolved[i])

\* the first lesson of the Monday of week 2 starts after the second one
C17_Witness ==
    /\ pc = "done"
    /\ result.tag = "Ok"
    /\ Len(result.schedule[1][1].monday.lessons) = 2
    /\ result.schedule[1][1].monday.lessons[1] = LessonOf(resolved[1])
    /\ result.schedule[1][1].monday.lessons[2] = LessonOf(resolved[2])
    /\ TimeLess(resolved[2].start_time, resolved[1].start_time)

-----------------------------------------------------------------------------
(* Week numbers outside 1..53 *)

\* a week string of the record names a week outside 1..53
NamesOutside(tr) ==
    (Named(tr.base) \cup Named(tr.excl) \cup Named(tr.incl)) \ (1..NumWeeks) # {}

\* C18: when a record names a week outside 1..53 (0, 54, 300) in a week
\* string and no record has an invalid field, deserialize ends in a panic: it
\* returns neither Ok nor Err
C18_OutsideWeekPanics ==
    (/\ pc = "done"
     /\ data.json_ok
     /\ Failing = {}
     /\ \E i \in DOMAIN toks : NamesOutside(toks[i]))
        => result.tag = "Panic"

-----------------------------------------------------------------------------
(* user.rs: Token.  A NaiveDateTime is the number of seconds since          *)
(* 2024-01-01 00:00:00, a Duration a number of seconds                      *)

\* NaiveDate::from_ymd_opt(2024, 1, 1).and_hms_opt(h, m, s)
Hms(h, m, s) == 3600 * h + 60 * m + s

\* Token::new_with_now (the now function is the clock of the model)
TokenNew(t, expires) == [token |-> t, expires |-> expires]

\* Token::expires_in, now being what (self.now)() returned
ExpiresIn(self, now) == self.expires - now

\* variant: a token is expired from its expiry instant on
IsExpired_atexpiry(self, now) == self.expires <= now

\* Token::is_expired
IsExpired(self, now) == self.expires < now

\* Token::is_valid
IsValid(self, now) == ~IsExpired(self, now)

\* variant: a token with a full minute left is safe
IsSafe_fullminute(self, now) == ExpiresIn(self, now) >= 60

\* Token::is_safe: Duration::minutes(1) is 60 seconds
IsSafe(self, now) == ExpiresIn(self, now) > 60

\* seconds the clock runs past the expiry of the token
MaxLate == 2
\* calls recorded at one reading of the clock
MaxCalls == 2

\* the expiry of the tokens of the tests, and one that is not a full minute
ExpiryMenu == {Hms(12, 0, 0), Hms(11, 59, 30)}

\* the clocks of the tests: an hour, a minute and half a minute before noon
ClockMenu == {Hms(11, 0, 0), Hms(11, 59, 0), Hms(11, 59, 30)}

InitToken ==
    /\ \E e \in ExpiryMenu : token = Some(TokenNew("123notrealtoken123_1337_1", e))
    /\ clock \in ClockMenu
    /\ start_date = None
    /\ toks = <<>>
    /\ spaces = 1
    /\ data = [json_ok |-> TRUE, records |-> <<>>]
    /\ pc = "token"
    /\ iter = WeekRangeFrom(<<>>)
    /\ Idle

\* a second passes
Tick ==
    /\ pc = "token"
    /\ clock < token[1].expires + MaxLate
    /\ clock' = clock + 1
    /\ calls' = <<>>
    /\ UNCHANGED <<token, fetched, start_date, new_week, got_day, toks, spaces, data, pc, idx, iter,
                   out, weeks_mask, try_result, todo, resolved, schedule, result>>

\* a method of the token is called and returns ret
Call(fn, ret) ==
    /\ pc = "token"
    /\ Len(calls) < MaxCalls
    /\ calls' = Append(calls, [fn |-> fn, now |-> clock, ret |-> ret])
    /\ UNCHANGED <<clock, token, fetched, start_date, new_week, got_day, toks, spaces, data, pc, idx,
                   iter, out, weeks_mask, try_result, todo, resolved, schedule, result>>

CallExpiresIn == Call("expires_in", ExpiresIn(token[1], clock))

CallIsExpired == Call("is_expired", IsExpired(token[1], clock))

CallIsValid == Call("is_valid", IsValid(token[1], clock))

CallIsSafe == Call("is_safe", IsSafe(token[1], clock))

NextToken ==
    \/ Tick
    \/ CallExpiresIn
    \/ CallIsExpired
    \/ CallIsValid
    \/ CallIsSafe

SpecToken == InitToken /\ [][NextToken]_vars

-----------------------------------------------------------------------------
(* Token: expiry *)

\* C20: is_expired returns true exactly when the expiry instant is strictly
\* earlier than now: at now = expires it returns false and is_valid true, a
\* second later is_expired returns true and is_valid false; is_valid returns
\* the negation of what is_expired returns at the same instant, and
\* expires_in returns expires - now, negative after the expiry
C20_ExpiredStrictlyAfter ==
    \A i \in DOMAIN calls :
        LET c == calls[i]
            expires == token[1].expires
        IN  /\ c.fn = "is_expired" => (c.ret <=> expires < c.now)
            /\ (c.fn = "is_expired" /\ c.now = expires) => c.ret = FALSE
            /\ (c.fn = "is_expired" /\ c.now = expires + 1) => c.ret = TRUE
            /\ (c.fn = "is_valid" /\ c.now = expires) => c.ret = TRUE
            /\ (c.fn = "is_valid" /\ c.now = expires + 1) => c.ret = FALSE
            /\ c.fn = "is_valid" =>
                   \A j \in DOMAIN calls : calls[j].fn = "is_expired" => c.ret = ~calls[j].ret
            /\ c.fn = "expires_in" =>
                   /\ c.ret = expires - c.now
                   /\ c.now + c.ret = expires
                   /\ \A j \in DOMAIN calls : calls[j].fn = "is_expired" => (calls[j].ret <=> c.ret < 0)

\* the expiration_now test: at 12:00:00 a token that expires at 12:00:00
C20_Witness ==
    /\ token[1].expires = Hms(12, 0, 0)
    /\ clock = Hms(12, 0, 0)
    /\ Len(calls) = 2
    /\ calls[1] = [fn |-> "is_expired", now |-> Hms(12, 0, 0), ret |-> FALSE]
    /\ calls[2] = [fn |-> "is_valid", now |-> Hms(12, 0, 0), ret |-> TRUE]

\* C21: is_safe returns true exactly when more than one minute remains until
\* the expiry: with 60 seconds or less left, and for an expired token, it
\* returns false; when is_safe returns true, is_valid returns true at the
\* same instant
C21_SafeMoreThanAMinute ==
    \A i \in DOMAIN calls :
        LET c == calls[i]
            left == token[1].expires - c.now
        IN  c.fn = "is_safe" =>
                /\ c.ret <=> left > 60
                /\ left <= 60 => c.ret = FALSE
                /\ left < 0 => c.ret = FALSE
                /\ \A j \in DOMAIN calls :
                      (calls[j].fn = "is_valid" /\ c.ret) => calls[j].ret

\* the expiration_in_1m test: a full minute left, valid but not safe
C21_Witness ==
    /\ token[1].expires = Hms(12, 0, 0)
    /\ clock = Hms(11, 59, 0)
    /\ Len(calls) = 2
    /\ calls[1] = [fn |-> "is_safe", now |-> Hms(11, 59, 0), ret |-> FALSE]
    /\ calls[2] = [fn |-> "is_valid", now |-> Hms(11, 59, 0), ret |-> TRUE]


-----------------------------------------------------------------------------
(* User: get_token and smart_token (SpecUser) *)

\* an expiryDate string: a time of day of 2024-01-01 written as
\* "%Y-%m-%d %H:%M:%S%.f" reads it, or text that is no date
DateText(h, m, s) == [ok |-> TRUE, h |-> h, m |-> m, s |-> s]

NoDateText == [ok |-> FALSE, h |-> 0, m |-> 0, s |-> 0]

\* NaiveDateTime::parse_from_str on an expiryDate string
ParseFromStr(text) == IF text.ok THEN Some(Hms(text.h, text.m, text.s)) ELSE None

\* the text of a response: a JSON object with expiryDate and token, or
\* text that is no such object
Body(t, e) == [json_ok |-> TRUE, token |-> t, expiryDate |-> e]

NoJson == [json_ok |-> FALSE, token |-> "", expiryDate |-> NoDateText]

\* Token::deserialize
TokenDeserialize(json) ==
    IF ~json.json_ok THEN Err("serde_json")
    ELSE LET expires == ParseFromStr(json.expiryDate)
         IN  IF expires = None THEN Err("custom")
             ELSE Ok(TokenNew(json.token, expires[1]))

\* what the server does with a request: arrived is false when send() fails,
\* readable is false when text() fails
Response(arrived, code, readable, body) ==
    [arrived |-> arrived, code |-> code, readable |-> readable, body |-> body]

NoResponse == Response(FALSE, 0, FALSE, NoJson)

\* utils.rs check_codes: is_success is 200..=299
CheckCodes(code) ==
    IF code \in 200..299 THEN Ok(<<>>)
    ELSE CASE code = 401 -> Err("Unauthorized")
           [] code = 500 -> Err("InternalServerError")
           [] OTHER -> Err("UncheckedCode")

\* utils.rs make_request
MakeRequest(resp) ==
    IF ~resp.arrived THEN Err("RequestError")
    ELSE IF CheckCodes(resp.code).tag = "Err" THEN CheckCodes(resp.code)
    ELSE IF ~resp.readable THEN Err("ReadError")
    ELSE Ok(resp.body)

\* Result<String, TokenError>
TokOk(s) == [tag |-> "Ok", err |-> "", inner |-> "", val |-> s]

TokErr(e, inner) == [tag |-> "Err", err |-> e, inner |-> inner, val |-> ""]

\* variant: a failed request forgets the saved token
GetToken_forgets(self, resp) ==
    LET response == MakeRequest(resp)
    IN  IF response.tag = "Err"
        THEN [token |-> None, requested |-> TRUE,
              ret |-> TokErr("RequestError", response.err)]
        ELSE LET t == TokenDeserialize(response.val[1])
             IN  IF t.tag = "Err"
                 THEN [token |-> None, requested |-> TRUE,
                       ret |-> TokErr("ParseError", t.err)]
                 ELSE [token |-> Some(t.val[1]), requested |-> TRUE,
                       ret |-> TokOk(t.val[1].token)]

\* User::get_token on a user whose token field is self, the server answering
\* resp: the new token field and what is returned
GetToken(self, resp) ==
    LET response == MakeRequest(resp)
    IN  IF response.tag = "Err"
        THEN [token |-> self, requested |-> TRUE,
              ret |-> TokErr("RequestError", response.err)]
        ELSE LET t == TokenDeserialize(response.val[1])
             IN  IF t.tag = "Err"
                 THEN [token |-> self, requested |-> TRUE,
                       ret |-> TokErr("ParseError", t.err)]
                 ELSE [token |-> Some(t.val[1]), requested |-> TRUE,
                       ret |-> TokOk(t.val[1].token)]

\* variant: the saved token is returned as long as it is valid
SmartToken_valid(self, now, resp) ==
    IF self # None /\ IsValid(self[1], now)
    THEN [token |-> self, requested |-> FALSE, ret |-> TokOk(self[1].token)]
    ELSE GetToken(self, resp)

\* User::smart_token
SmartToken(self, now, resp) ==
    IF self # None /\ IsSafe(self[1], now)
    THEN [token |-> self, requested |-> FALSE, ret |-> TokOk(self[1].token)]
    ELSE GetToken(self, resp)

\* the token strings of the tests
TokenNames == {"662a193b25bf2d38c75bb1b5f87d0562_3881_1", "123notrealtoken123_1337_1"}

\* the expiryDate strings of the bodies
DateMenu == {DateText(12, 0, 0), DateText(11, 59, 30), NoDateText}

BodyMenu == {Body(t, e) : t \in TokenNames, e \in DateMenu} \cup {NoJson}

\* the answers of the server: no answer, the answers of the token tests
\* (200 with a body, 401), 500, another code, and an answer that cannot be read
ResponseMenu ==
    {NoResponse}
        \cup {Response(TRUE, c, TRUE, NoJson) : c \in {401, 500, 404}}
        \cup {Response(TRUE, 200, FALSE, NoJson)}
        \cup {Response(TRUE, 200, TRUE, b) : b \in BodyMenu}

\* the latest expiry a body names
LastExpiry == Hms(12, 0, 0)

\* the clock at User::new: a little more than a minute before LastExpiry
UserClockMenu == {Hms(11, 58, 58)}

InitUser ==
    /\ token = None
    /\ clock \in UserClockMenu
    /\ start_date = None
    /\ toks = <<>>
    /\ spaces = 1
    /\ data = [json_ok |-> TRUE, records |-> <<>>]
    /\ pc = "user"
    /\ iter = WeekRangeFrom(<<>>)
    /\ Idle

\* a second passes
UserTick ==
    /\ pc = "user"
    /\ clock < LastExpiry + MaxLate
    /\ clock' = clock + 1
    /\ calls' = <<>>
    /\ UNCHANGED <<token, fetched, start_date, new_week, got_day, toks, spaces, data, pc, idx,
                   iter, out, weeks_mask, try_result, todo, resolved, schedule, result>>

\* the request got an answer the token can be read from
Succeeded(resp) ==
    /\ resp.arrived
    /\ resp.code \in 200..299
    /\ resp.readable
    /\ resp.body.json_ok
    /\ resp.body.expiryDate.ok

\* a call of fn goes from the token field saved to r.token and returns r.ret;
\* calls keeps the latest call of this reading of the clock
UserCall(fn, r, resp) ==
    /\ pc = "user"
    /\ token' = r.token
    /\ calls' = <<[fn |-> fn, now |-> clock, saved |-> token, requested |-> r.requested,
                   resp |-> IF r.requested THEN resp ELSE NoResponse, ret |-> r.ret]>>
    /\ fetched' = IF r.requested /\ Succeeded(resp) THEN Some(resp.body) ELSE fetched
    /\ UNCHANGED <<clock, start_date, new_week, got_day, toks, spaces, data, pc, idx,
                   iter, out, weeks_mask, try_result, todo, resolved, schedule, result>>

CallGetToken == \E resp \in ResponseMenu : UserCall("get_token", GetToken(token, resp), resp)

CallSmartToken ==
    \E resp \in ResponseMenu : UserCall("smart_token", SmartToken(token, clock, resp), resp)

NextUser ==
    \/ UserTick
    \/ CallGetToken
    \/ CallSmartToken

SpecUser == InitUser /\ [][NextUser]_vars

TokenIn(body) ==
    [token |-> body.token,
     expires |-> Hms(body.expiryDate.h, body.expiryDate.m, body.expiryDate.s)]

\* C23: user.token is None as long as no request has succeeded, and otherwise
\* is the token of the latest request that succeeded; a call that requested
\* and returned Ok got an answer that succeeded, stored its token and
\* returned its token string; a call that returned an error left user.token
\* as it was, and an answer of 401 is returned as RequestError(Unauthorized)
C23_LatestFetchStored ==
    /\ token = IF fetched = None THEN None ELSE Some(TokenIn(fetched[1]))
    /\ \A i \in DOMAIN calls :
           LET c == calls[i]
           IN  c.requested =>
                   /\ c.ret.tag = "Ok" <=> Succeeded(c.resp)
                   /\ c.ret.tag = "Ok" =>
                          /\ token = Some(TokenIn(c.resp.body))
                          /\ c.ret = TokOk(c.resp.body.token)
                   /\ c.ret.tag = "Err" => token = c.saved
                   /\ (c.resp.arrived /\ c.resp.code = 401) =>
                          c.ret = TokErr("RequestError", "Unauthorized")

\* a request answered 401 after an earlier request had stored a token
C23_Witness ==
    /\ Len(calls) = 1
    /\ calls[1].requested
    /\ calls[1].resp.arrived
    /\ calls[1].resp.code = 401
    /\ calls[1].ret = TokErr("RequestError", "Unauthorized")
    /\ calls[1].saved # None
    /\ token = calls[1].saved
    /\ fetched # None


-----------------------------------------------------------------------------
(* Schedule::from: the weeks of the calendar *)

\* C24: the calendar covers its anchor: some slot of the Schedule built from
\* an anchor date has a day dated the anchor date
C24_CoversAnchor ==
    pc = "built" =>
        \E i \in 0..52 : \E f \in DayFields : schedule[1][i][f].date = anchor

\* C25: the 53 slots hold pairwise distinct weeks: no two different slots
\* have the same Monday, and no date is in two slots
C25_DistinctWeeks ==
    pc = "built" =>
        \A i, j \in 0..52 :
            i # j =>
                /\ schedule[1][i].monday.date # schedule[1][j].monday.date
                /\ \A f, g \in DayFields : schedule[1][i][f].date # schedule[1][j][g].date

\* days from the Monday of slot i to the Monday of slot j
MondayGap(i, j) ==
    DayNumber(schedule[1][j].monday.date) - DayNumber(schedule[1][i].monday.date)

\* C26: in the order 26, ..., 52, 0, ..., 25 the Mondays never decrease and
\* never skip a week: inside each half the Mondays of consecutive slots are
\* 7 days apart, and the Monday of slot 0 is the Monday of slot 52 or the
\* one 7 days after it
C26_MondaysInOrder ==
    pc = "built" =>
        /\ \A i \in 0..24 : MondayGap(i, i + 1) = 7
        /\ \A i \in 26..51 : MondayGap(i, i + 1) = 7
        /\ MondayGap(52, 0) \in {0, 7}
        /\ \A i \in 0..52 : WeekdayOf(schedule[1][i].monday.date) = "Mon"

\* 2021-12-31 and 2022-01-01 are in one week, the week of Monday 2021-12-27:
\* the calendar of 2022-01-01 has it in slot 52 and again in slot 0
C26_Witness ==
    /\ pc = "built"
    /\ anchor = FromYmd(2022, 1, 1)
    /\ schedule[1][52].monday.date = FromYmd(2021, 12, 27)
    /\ MondayGap(52, 0) = 0
    /\ MondayGap(51, 52) = 7
    /\ MondayGap(0, 1) = 7


-----------------------------------------------------------------------------
(* WeekRange: calls after the first None, and reversed ranges *)

\* C27: once a call of next() has returned None with the input used up,
\* the next call returns None as well and returns no week (the input stays
\* used up, so this goes on for every later call)
C27_NoneAtEndIsFinal ==
    [][(pc = "wr" /\ iter.input = <<>> /\ out # <<>> /\ out[Len(out)] = None)
           => (out' = Append(out, None) /\ iter'.input = <<>> /\ pc' = "wr")]_vars

\* C27 as stated: WeekRange is fused, no call after a None returns a week
C27_Fused ==
    \A i, j \in DOMAIN out : (i < j /\ out[i] = None) => out[j] = None

\* "2": the second call returns None at the end of the input, and so does
\* the third
C27_Witness ==
    /\ WRToks = <<TSingle(2)>>
    /\ iter.input = <<>>
    /\ out = <<Some(2), None, None>>

\* a range a-b with 1 <= b < a <= 53
Reversed(t) == t.k = "range" /\ 1 <= t.b /\ t.b < t.a /\ t.a <= 53

\* the weeks C28 gives a token: a alone for a reversed range
ExpandOrStart(ts) ==
    Concat([i \in DOMAIN ts |-> IF Reversed(ts[i]) THEN <<ts[i].a>> ELSE Expand(ts[i])])

\* C28: a reversed range a-b (1 <= b < a <= 53) among well-formed tokens
\* separated by ", " is neither expanded nor rejected: WeekRange yields the
\* single week a for it and goes on with the next token, and no call fails
C28_ReversedYieldsStart ==
    (/\ spaces = 1
     /\ \E i \in DOMAIN WRToks : Reversed(WRToks[i])
     /\ \A i \in DOMAIN WRToks : Reversed(WRToks[i]) \/ WellFormedTok(WRToks[i])) =>
        /\ result.tag # "Panic"
        /\ IsPrefix(Collected, ExpandOrStart(WRToks))
        /\ WRDone => Collected = ExpandOrStart(WRToks)

\* "5-3, 7" yields 5 and 7
C28_Witness ==
    /\ WRDone
    /\ spaces = 1
    /\ WRToks = <<TRange(5, 3), TSingle(7)>>
    /\ Collected = <<5, 7>>


-----------------------------------------------------------------------------
(* Occasion::try_from: the order of the field errors *)

\* C29: when Occasion::try_from returns for a record with several invalid
\* fields, the error is the one of the first invalid field in the order
\* guid, dayId, startTime, endTime: UuidParseError for an invalid guid
\* whatever dayId and the times hold, DayOfWeekError for a valid guid with an
\* invalid dayId whatever the times hold, and TimeParseError when only
\* times are invalid
C29_FirstFieldError ==
    (idx >= 1 /\ try_result.tag # "Running") =>
        LET r == raw[idx]
            bad_guid == r.guid # ValidGuid
            bad_day == r.day_id \notin 0..6
            bad_time == r.start_time \notin DOMAIN TimeOfDay \/ r.end_time \notin DOMAIN TimeOfDay
        IN  /\ bad_guid => (try_result.tag = "Err" /\ try_result.err = "UuidParseError")
            /\ (~bad_guid /\ bad_day) =>
                   (try_result.tag = "Err" /\ try_result.err = "DayOfWeekError")
            /\ (~bad_guid /\ ~bad_day /\ bad_time) =>
                   (try_result.tag = "Err" /\ try_result.err = "TimeParseError")

\* every field of the record is invalid and the error is the one of guid
C29_Witness ==
    /\ idx >= 1
    /\ raw[idx].guid = "afbae58f"
    /\ raw[idx].day_id = 7
    /\ raw[idx].start_time = "08:20"
    /\ raw[idx].end_time = ""
    /\ try_result.tag = "Err"
    /\ try_result.err = "UuidParseError"


-----------------------------------------------------------------------------
(* Schedule::deserialize: what placing leaves alone *)

\* the days of a Schedule: slot index and field
Days == (0..(NumWeeks - 1)) \X DayFields

\* C30: placing lessons only appends.  Whatever has been placed, the date of
\* every day and the week of every slot of deserialize's schedule are the
\* ones Schedule::from set for today; a step of deserialize that changes the
\* schedule is a placement step, it adds one lesson at the end of the
\* lessons of one day, and leaves every lesson that was in a day at its
\* position with its fields, and every other day as it was
C30_PlacingOnlyAppends ==
    /\ [](schedule # None =>
             \A i \in 0..(NumWeeks - 1) :
                 /\ schedule[1][i].week = TodaySchedule[start_date[1]][i].week
                 /\ \A f \in DayFields :
                        schedule[1][i][f].date = TodaySchedule[start_date[1]][i][f].date)
    /\ [][(schedule # None /\ schedule' # schedule) =>
             /\ pc = "place"
             /\ schedule' # None
             /\ \E d \in Days :
                   /\ Len(schedule'[1][d[1]][d[2]].lessons) =
                          Len(schedule[1][d[1]][d[2]].lessons) + 1
                   /\ IsPrefix(schedule[1][d[1]][d[2]].lessons,
                               schedule'[1][d[1]][d[2]].lessons)
                   /\ d[1] = ((Head(todo) + U8Max) % (U8Max + 1))
                   /\ WeekdayOf(schedule[1][d[1]][d[2]].date) = try_result.val[1].week_day
                   /\ \A e \in Days \ {d} : schedule'[1][e[1]][e[2]] = schedule[1][e[1]][e[2]]]_vars

\* a second lesson has been put behind the first one of a day
C30_Witness ==
    /\ schedule # None
    /\ \E d \in Days : Len(schedule[1][d[1]][d[2]].lessons) = 2
    /\ \A i \in 0..(NumWeeks - 1) :
           schedule[1][i].monday.date = TodaySchedule[start_date[1]][i].monday.date

=============================================================================
